---- MODULE Spec2Model ----
(***************************************************************************)
(* Real-time onset quantization and bar tracking of Scorify                *)
(* (src/src/utils/scorify.ts) as a state machine.                          *)
(*                                                                         *)
(* Times are milliseconds.  The JavaScript numbers that carry fractions    *)
(* (the weighted group onset time, lastBeatTimestamp, smoothedInterval)    *)
(* are exact rationals [n |-> numerator, d |-> denominator > 0] in lowest  *)
(* terms; Math.round(x) is floor(x + 1/2).                                 *)
(***************************************************************************)
EXTENDS Integers, Sequences, FiniteSets, TLC

(***************************************************************************)
(* Bounds of the model                                                     *)
(***************************************************************************)
\* addNote calls since the last reset (pending or drawn)
MaxNotes == 2
\* detections held in beatGroups
MaxBeats == 2
\* largest currentMeasureTatumIndex a drawBuffedNotes call may leave
MaxMeasureIndex == 5

\* timestamps (ms) handed to addNote and addBeat
Times == {0, 200, 500, 5000}
\* (midi, staff) of the notes handed to addNote: the k-th note since the last
\* reset is the k-th of these (cyclically), as the first notes of PERF_PRESET
NoteInputs == <<<<60, "bass">>, <<64, "treble">>>>
\* values handed to updateTatum: computeTatum(level) for the levels 4 and 8
TatumInputs == {1, 2}

(***************************************************************************)
(* Program constants                                                       *)
(***************************************************************************)
GROUP_WINDOW_MS == 250
ON_BEAT_TOLERANCE_MS == 50
\* MAX_TEMPO_JUMP = 1.5 = MaxTempoJumpNum / MaxTempoJumpDen
MaxTempoJumpNum == 3
MaxTempoJumpDen == 2
\* smoothedInterval at module load and after resetScorify
DefaultInterval == 1000
\* defaultTatum at module load
InitialTatum == 2
\* "no more than 1 measures of rest": index <= defaultTatum * MeasureBeats
MeasureBeats == 4

(***************************************************************************)
(* Exact arithmetic on JavaScript numbers                                  *)
(***************************************************************************)
Abs(x) == IF x < 0 THEN -x ELSE x

Min(a, b) == IF a < b THEN a ELSE b

Max(a, b) == IF a > b THEN a ELSE b

RECURSIVE Gcd(_, _)
Gcd(a, b) == IF b = 0 THEN a ELSE Gcd(b, a % b)

\* the rational n/d (d # 0) in lowest terms with a positive denominator
Rat(n, d) ==
    LET g == Gcd(Abs(n), Abs(d))
        s == IF d < 0 THEN -1 ELSE 1
    IN  [n |-> s * (n \div g), d |-> s * (d \div g)]

RInt(k) == [n |-> k, d |-> 1]

RAdd(a, b) ==
    LET g == Gcd(a.d, b.d)
    IN  Rat(a.n * (b.d \div g) + b.n * (a.d \div g), (a.d \div g) * b.d)

RNeg(a) == [n |-> -a.n, d |-> a.d]

RSub(a, b) == RAdd(a, RNeg(b))

RMul(a, b) ==
    LET g1 == Gcd(Abs(a.n), b.d)
        g2 == Gcd(Abs(b.n), a.d)
    IN  [n |-> (a.n \div g1) * (b.n \div g2), d |-> (a.d \div g2) * (b.d \div g1)]

\* a / b for b > 0
RDiv(a, b) == RMul(a, [n |-> b.d, d |-> b.n])

RAbs(a) == [n |-> Abs(a.n), d |-> a.d]

RLt(a, b) ==
    LET g == Gcd(a.d, b.d)
    IN  a.n * (b.d \div g) < b.n * (a.d \div g)

RGt(a, b) == RLt(b, a)

\* Math.floor
RFloor(a) == a.n \div a.d

\* Math.round: the nearest integer, halves rounded up
MathRound(a) == RFloor(RAdd(a, [n |-> 1, d |-> 2]))

(***************************************************************************)
(* State                                                                   *)
(***************************************************************************)
VARIABLES
    pendingNotes,               \* NoteEvent[]: notes not yet drawn
    beatGroups,                 \* BeatEvent[][]: grouped beat detections
    lastBeatTimestamp,          \* number | null
    smoothedInterval,           \* smoothed inter-beat interval (ms)
    isFirstBeat,                \* at the beginning of scorification
    defaultTatum,               \* tatums per beat
    currentMeasureTatumIndex,   \* cumulative tatum index in the measure
    drawNoteSet,                \* window.drawNote is installed
    emitted,                    \* history: the drawNote calls since the last reset
    lastFlush,                  \* history: what the latest drawBuffedNotes call met and did
    hist,                       \* history: flags over the calls made since the last reset
    call                        \* one call of a helper on its own: arguments and result

vars == <<pendingNotes, beatGroups, lastBeatTimestamp, smoothedInterval, isFirstBeat,
          defaultTatum, currentMeasureTatumIndex, drawNoteSet, emitted, lastFlush,
          hist, call>>

engine == <<pendingNotes, beatGroups, lastBeatTimestamp, smoothedInterval, isFirstBeat,
            defaultTatum, currentMeasureTatumIndex>>

(***************************************************************************)
(* Internal helpers of scorify.ts                                          *)
(***************************************************************************)
\* The non-finite JavaScript numbers, as timestamps: three values outside the
\* range of the finite timestamps
NaN == 1000000001
PosInfinity == 1000000002
NegInfinity == 1000000003
NonFinite == {NaN, PosInfinity, NegInfinity}

\* Number.isFinite
IsFinite(x) == x \notin NonFinite

\* the JavaScript value of (a - b < limit) for timestamps a, b and a finite limit:
\* false when a - b is NaN (NaN operand, or Infinity - Infinity), else by the sign
\* of the infinite difference, else by the numbers
SubLessThan(a, b, limit) ==
    IF a = NaN \/ b = NaN THEN FALSE
    ELSE IF a = PosInfinity THEN FALSE
    ELSE IF a = NegInfinity THEN b # NegInfinity
    ELSE IF b = PosInfinity THEN TRUE
    ELSE IF b = NegInfinity THEN FALSE
    ELSE a - b < limit

\* groupBeat that starts over with the new group instead of pushing it
groupBeat_DropsOldGroups(groups, timestamp, isDownbeat) ==
    LET ev == [timestamp |-> timestamp, isDownbeat |-> isDownbeat]
    IN  IF Len(groups) = 0
        THEN <<<<ev>>>>
        ELSE LET group == groups[Len(groups)]
                 last == group[Len(group)]
             IN  IF SubLessThan(timestamp, last.timestamp, GROUP_WINDOW_MS)
                 THEN [groups EXCEPT ![Len(groups)] = Append(group, ev)]
                 ELSE <<<<ev>>>>

\* groupBeat: the value of beatGroups after groupBeat(timestamp, isDownbeat)
groupBeat(groups, timestamp, isDownbeat) ==
    LET ev == [timestamp |-> timestamp, isDownbeat |-> isDownbeat]
    IN  IF Len(groups) = 0
        THEN <<<<ev>>>>
        ELSE LET group == groups[Len(groups)]
                 last == group[Len(group)]
             IN  IF SubLessThan(timestamp, last.timestamp, GROUP_WINDOW_MS)
                 THEN [groups EXCEPT ![Len(groups)] = Append(group, ev)]
                 ELSE Append(groups, <<ev>>)

RECURSIVE WeightedTotal_LinearWeights(_, _)
\* WeightedTotal with the weight i + 1 in place of (i + 1)^2
WeightedTotal_LinearWeights(group, k) ==
    IF k = 0 THEN 0 ELSE WeightedTotal_LinearWeights(group, k - 1) + group[k].timestamp * k

RECURSIVE WeightedTotal(_, _)
\* sum over the first k members of g.timestamp * (i + 1)^2 (i 0-indexed)
WeightedTotal(group, k) ==
    IF k = 0 THEN 0 ELSE WeightedTotal(group, k - 1) + group[k].timestamp * k * k

RECURSIVE WeightSum(_)
WeightSum(k) == IF k = 0 THEN 0 ELSE WeightSum(k - 1) + k * k

\* weightedBeatOnsetTime: the onset time representing a non-empty group
weightedBeatOnsetTime(group) ==
    IF Len(group) = 1
    THEN RInt(group[1].timestamp)
    ELSE Rat(WeightedTotal(group, Len(group)), WeightSum(Len(group)))

MaxTempoJump == [n |-> MaxTempoJumpNum, d |-> MaxTempoJumpDen]

\* lastBeatTimestamp = null (no number has denominator 0)
NULL == [n |-> 0, d |-> 0]

\* updateBPM with the weights of the smoothing exchanged
updateBPM_WeightsExchanged(currentBeatTime, last, smoothed) ==
    IF last = NULL
    THEN [last |-> currentBeatTime, smoothed |-> smoothed]
    ELSE LET observed == RSub(currentBeatTime, last)
         IN  IF RGt(observed, RMul(smoothed, MaxTempoJump))
             THEN [last |-> last, smoothed |-> smoothed]
             ELSE IF RLt(observed, RInt(ON_BEAT_TOLERANCE_MS))
                  THEN [last |-> last, smoothed |-> smoothed]
                  ELSE [last |-> last,
                        smoothed |-> RAdd(RMul(smoothed, [n |-> 3, d |-> 10]),
                                          RMul(observed, [n |-> 7, d |-> 10]))]

\* updateBPM that does not reject jumps
updateBPM_FoldsJumps(currentBeatTime, last, smoothed) ==
    IF last = NULL
    THEN [last |-> currentBeatTime, smoothed |-> smoothed]
    ELSE LET observed == RSub(currentBeatTime, last)
         IN  IF RLt(observed, RInt(ON_BEAT_TOLERANCE_MS))
             THEN [last |-> last, smoothed |-> smoothed]
             ELSE [last |-> last,
                   smoothed |-> RAdd(RMul(smoothed, [n |-> 7, d |-> 10]),
                                     RMul(observed, [n |-> 3, d |-> 10]))]

\* updateBPM: the pair (lastBeatTimestamp, smoothedInterval) after updateBPM(currentBeatTime)
updateBPM(currentBeatTime, last, smoothed) ==
    IF last = NULL
    THEN [last |-> currentBeatTime, smoothed |-> smoothed]
    ELSE LET observed == RSub(currentBeatTime, last)
         IN  IF RGt(observed, RMul(smoothed, MaxTempoJump))
             THEN [last |-> last, smoothed |-> smoothed]
             ELSE IF RLt(observed, RInt(ON_BEAT_TOLERANCE_MS))
                  THEN [last |-> last, smoothed |-> smoothed]
                  ELSE [last |-> last,
                        smoothed |-> RAdd(RMul(smoothed, [n |-> 7, d |-> 10]),
                                          RMul(observed, [n |-> 3, d |-> 10]))]

\* getVirtualBeats that forgets to leave out the beat that was detected
getVirtualBeats_CountsDetectedBeat(currentBeatTime, last, smoothed) ==
    IF last = NULL
    THEN 0
    ELSE LET observed == RSub(currentBeatTime, last)
             expected == smoothed
         IN  IF RLt(observed, RMul(expected, MaxTempoJump))
             THEN 0
             ELSE Max(0, MathRound(RDiv(observed, expected)))

\* getVirtualBeats: the number of undetected beats between last and currentBeatTime
getVirtualBeats(currentBeatTime, last, smoothed) ==
    IF last = NULL
    THEN 0
    ELSE LET observed == RSub(currentBeatTime, last)
             expected == smoothed
         IN  IF RLt(observed, RMul(expected, MaxTempoJump))
             THEN 0
             ELSE Max(0, MathRound(RDiv(observed, expected)) - 1)

(***************************************************************************)
(* drawBuffedNotes                                                         *)
(***************************************************************************)
\* the note is at the onset time of the beat group being drawn
isOnBeat(timestamp, beatTime) ==
    RLt(RAbs(RSub(RInt(timestamp), beatTime)), RInt(ON_BEAT_TOLERANCE_MS))

\* "Case 2": the note is at the previous beat time (delta from it below the tolerance)
isSamePlace(latestGroup, delta) ==
    Len(latestGroup) > 0 /\ RLt(RAbs(delta), RInt(ON_BEAT_TOLERANCE_MS))

\* isDownbeat that looks at the flags of all detections of the group
isDownbeatOf_AnyDetection(first, latestGroup, nearBeat, samePlace) ==
    IF samePlace
    THEN FALSE \/ first
    ELSE first \/ ((\E k \in 1..Len(latestGroup) : latestGroup[k].isDownbeat) /\ nearBeat)

\* isDownbeat that never starts a measure in case 2, not even at the start
isDownbeatOf_NoStartInCase2(first, latestGroup, nearBeat, samePlace) ==
    IF samePlace THEN FALSE ELSE first \/ (latestGroup[1].isDownbeat /\ nearBeat)

\* isDownbeat without case 2
isDownbeatOf_NoCase2(first, latestGroup, nearBeat, samePlace) ==
    first \/ (latestGroup[1].isDownbeat /\ nearBeat)

\* isDownbeat of a note: it starts a new measure
isDownbeatOf(first, latestGroup, nearBeat, samePlace) ==
    IF samePlace THEN FALSE \/ first ELSE first \/ (latestGroup[1].isDownbeat /\ nearBeat)

\* drawOneNote that does not set currentMeasureTatumIndex to 0 on a downbeat
drawOneNote_KeepsMeasureIndex(note, loop, latestGroup, beatTime, last, tatumSize, tatum, groupNo) ==
    LET delta == IF last = NULL THEN RInt(0) ELSE RSub(RInt(note.timestamp), last)
        rounded == MathRound(RDiv(delta, tatumSize))
        index0 == IF rounded < 0 THEN 0 ELSE rounded
        nearBeat == isOnBeat(note.timestamp, beatTime)
        samePlace == isSamePlace(latestGroup, delta)
        beatsToPrev == IF samePlace THEN 0 ELSE 1
        index1 == IF samePlace THEN 0 ELSE index0
        isDownbeat == isDownbeatOf(loop.isFirstBeat, latestGroup, nearBeat, samePlace)
        virtualBeats == IF samePlace THEN 0 ELSE loop.virtualBeats
        beatsBetween == beatsToPrev + virtualBeats
        tatumsBetween == beatsBetween * tatum
        index2 == IF index1 > tatumsBetween THEN tatumsBetween ELSE index1
        measureIndex == loop.currentMeasureTatumIndex
        index3 == IF isDownbeat THEN 0 ELSE index2
        index == Min(tatum * MeasureBeats, index3)
        positionInMeasure == measureIndex + index
    IN  [virtualBeats |-> virtualBeats,
         latestTatumIdx |-> index,
         isFirstBeat |-> FALSE,
         currentMeasureTatumIndex |-> measureIndex,
         out |-> Append(loop.out,
                        [midi |-> note.midi, staff |-> note.staff, newBar |-> isDownbeat,
                         positionInMeasure |-> positionInMeasure,
                         \* history fields, not arguments of drawNote
                         timestamp |-> note.timestamp, arrival |-> note.arrival,
                         group |-> groupNo, onBeat |-> nearBeat, fresh |-> FALSE])]

\* drawOneNote without the limit of one measure of rest on index
drawOneNote_NoRestLimit(note, loop, latestGroup, beatTime, last, tatumSize, tatum, groupNo) ==
    LET delta == IF last = NULL THEN RInt(0) ELSE RSub(RInt(note.timestamp), last)
        rounded == MathRound(RDiv(delta, tatumSize))
        index0 == IF rounded < 0 THEN 0 ELSE rounded
        nearBeat == isOnBeat(note.timestamp, beatTime)
        samePlace == isSamePlace(latestGroup, delta)
        beatsToPrev == IF samePlace THEN 0 ELSE 1
        index1 == IF samePlace THEN 0 ELSE index0
        isDownbeat == isDownbeatOf(loop.isFirstBeat, latestGroup, nearBeat, samePlace)
        virtualBeats == IF samePlace THEN 0 ELSE loop.virtualBeats
        beatsBetween == beatsToPrev + virtualBeats
        tatumsBetween == beatsBetween * tatum
        index2 == IF index1 > tatumsBetween THEN tatumsBetween ELSE index1
        measureIndex == IF isDownbeat THEN 0 ELSE loop.currentMeasureTatumIndex
        index3 == IF isDownbeat THEN 0 ELSE index2
        index == index3
        positionInMeasure == measureIndex + index
    IN  [virtualBeats |-> virtualBeats,
         latestTatumIdx |-> index,
         isFirstBeat |-> FALSE,
         currentMeasureTatumIndex |-> measureIndex,
         out |-> Append(loop.out,
                        [midi |-> note.midi, staff |-> note.staff, newBar |-> isDownbeat,
                         positionInMeasure |-> positionInMeasure,
                         \* history fields, not arguments of drawNote
                         timestamp |-> note.timestamp, arrival |-> note.arrival,
                         group |-> groupNo, onBeat |-> nearBeat, fresh |-> FALSE])]

\* One iteration of the loop over notesToDraw (Step 5).  loop holds the
\* variables the iterations share: virtualBeats, latestTatumIdx, isFirstBeat,
\* currentMeasureTatumIndex and the drawNote calls made (out).
drawOneNote(note, loop, latestGroup, beatTime, last, tatumSize, tatum, groupNo) ==
    LET delta == IF last = NULL THEN RInt(0) ELSE RSub(RInt(note.timestamp), last)
        rounded == MathRound(RDiv(delta, tatumSize))
        index0 == IF rounded < 0 THEN 0 ELSE rounded
        nearBeat == isOnBeat(note.timestamp, beatTime)
        samePlace == isSamePlace(latestGroup, delta)
        beatsToPrev == IF samePlace THEN 0 ELSE 1
        index1 == IF samePlace THEN 0 ELSE index0
        isDownbeat == isDownbeatOf(loop.isFirstBeat, latestGroup, nearBeat, samePlace)
        virtualBeats == IF samePlace THEN 0 ELSE loop.virtualBeats
        beatsBetween == beatsToPrev + virtualBeats
        tatumsBetween == beatsBetween * tatum
        index2 == IF index1 > tatumsBetween THEN tatumsBetween ELSE index1
        measureIndex == IF isDownbeat THEN 0 ELSE loop.currentMeasureTatumIndex
        index3 == IF isDownbeat THEN 0 ELSE index2
        index == Min(tatum * MeasureBeats, index3)
        positionInMeasure == measureIndex + index
    IN  [virtualBeats |-> virtualBeats,
         latestTatumIdx |-> index,
         isFirstBeat |-> FALSE,
         currentMeasureTatumIndex |-> measureIndex,
         out |-> Append(loop.out,
                        [midi |-> note.midi, staff |-> note.staff, newBar |-> isDownbeat,
                         positionInMeasure |-> positionInMeasure,
                         \* history fields, not arguments of drawNote
                         timestamp |-> note.timestamp, arrival |-> note.arrival,
                         group |-> groupNo, onBeat |-> nearBeat, fresh |-> FALSE])]

RECURSIVE drawLoop(_, _, _, _, _, _, _, _, _)
\* the loop over notesToDraw, from the i-th note on
drawLoop(notes, i, loop, latestGroup, beatTime, last, tatumSize, tatum, groupNo) ==
    IF i > Len(notes)
    THEN loop
    ELSE drawLoop(notes, i + 1,
                  drawOneNote(notes[i], loop, latestGroup, beatTime, last, tatumSize,
                              tatum, groupNo),
                  latestGroup, beatTime, last, tatumSize, tatum, groupNo)

\* notesToDraw that leaves out the oldest pending note
notesToDraw_SkipsOldest(pending) ==
    IF Len(pending) = 0 THEN pending ELSE Tail(pending)

\* notesToDraw that holds every pending note twice
notesToDraw_Twice(pending) == pending \o pending

\* the notes drawBuffedNotes draws, in drawing order: a copy of pendingNotes
notesToDraw(pending) == pending

\* Step 7 without the addition: the index of the last note drawn is dropped
addTillCurrentBeat_DropsIndex(measureIndex, latestTatumIdx) == measureIndex

\* Step 7: currentMeasureTatumIndex += latestTatumIdx
addTillCurrentBeat(measureIndex, latestTatumIdx) == measureIndex + latestTatumIdx

\* returnsEarly without the test of window.drawNote
returnsEarly_IgnoresDrawNote(groups, drawNoteAvailable) ==
    Len(groups) = 0

\* the early returns of drawBuffedNotes: no beat group yet, or no window.drawNote
returnsEarly(groups, drawNoteAvailable) ==
    Len(groups) = 0 \/ ~drawNoteAvailable

\* the body of drawBuffedNotes past its two early returns
drawResult(pending, groups, last, smoothed, first, tatum, measureIndex) ==
    LET latestGroup == groups[Len(groups)]
        beatTime == weightedBeatOnsetTime(latestGroup)
        bpm == updateBPM(beatTime, last, smoothed)
        virtualBeats == getVirtualBeats(beatTime, bpm.last, bpm.smoothed)
        tatumSize == RDiv(bpm.smoothed, RInt(tatum))
        loop == drawLoop(notesToDraw(pending), 1,
                         [virtualBeats |-> virtualBeats, latestTatumIdx |-> 0,
                          isFirstBeat |-> first,
                          currentMeasureTatumIndex |-> measureIndex, out |-> <<>>],
                         latestGroup, beatTime, bpm.last, tatumSize, tatum, Len(groups))
    IN  [pendingNotes |-> <<>>,
         lastBeatTimestamp |-> beatTime,
         smoothedInterval |-> bpm.smoothed,
         isFirstBeat |-> loop.isFirstBeat,
         currentMeasureTatumIndex |->
             addTillCurrentBeat(loop.currentMeasureTatumIndex, loop.latestTatumIdx),
         out |-> loop.out,
         beatTime |-> beatTime,
         virtualBeats |-> virtualBeats]

(***************************************************************************)
(* Initial state and operations                                            *)
(***************************************************************************)
NoFlush ==
    [ran |-> FALSE, from |-> 0, measureBefore |-> 0, tatum |-> 0, virtualBeats |-> 0,
     beatTime |-> NULL, lastBefore |-> NULL, smoothedBefore |-> NULL,
     newGroup |-> FALSE, beatSince |-> FALSE, firstBefore |-> FALSE,
     firstIsDownbeat |-> FALSE, firstTimestamp |-> 0, sortedBeats |-> FALSE,
     early |-> "", pendingBefore |-> 0, keptBefore |-> 0]

NoCall == [fn |-> "none"]

\* fresh: nothing drawn since the start or the last resetScorify
\* drawnGroup: the number of the group the latest drawing call worked on (0: none)
\* beatSince: addBeat was called since the latest drawing call
\* sortedBeats: the addBeat timestamps since the last reset never decreased
\* added: the number of addNote calls since the last reset
NoHist == [drawnGroup |-> 0, beatSince |-> FALSE, sortedBeats |-> TRUE, added |-> 0]

InitEngine ==
    /\ pendingNotes = <<>>
    /\ beatGroups = <<>>
    /\ lastBeatTimestamp = NULL
    /\ smoothedInterval = RInt(DefaultInterval)
    /\ isFirstBeat = TRUE
    /\ defaultTatum = InitialTatum
    /\ currentMeasureTatumIndex = 0
    /\ drawNoteSet = FALSE
    /\ emitted = <<>>
    /\ lastFlush = NoFlush
    /\ hist = [fresh |-> TRUE] @@ NoHist

Init ==
    /\ InitEngine
    /\ call = NoCall

RECURSIVE Detections(_, _)
\* the number of detections held in the first k groups
Detections(groups, k) == IF k = 0 THEN 0 ELSE Detections(groups, k - 1) + Len(groups[k])

\* addNote(midi, staff, timestamp); arrival (history) numbers the addNote calls
\* since the last reset
AddNote(midi, staff, timestamp) ==
    /\ pendingNotes' = Append(pendingNotes,
                              [midi |-> midi, staff |-> staff, timestamp |-> timestamp,
                               arrival |-> hist.added + 1])
    /\ hist' = [hist EXCEPT !.added = @ + 1]
    /\ UNCHANGED <<beatGroups, lastBeatTimestamp, smoothedInterval, isFirstBeat,
                   defaultTatum, currentMeasureTatumIndex, drawNoteSet, emitted,
                   lastFlush, call>>

\* addBeat(timestamp, isDownbeat)
AddBeat(timestamp, isDownbeat) ==
    /\ beatGroups' = groupBeat(beatGroups, timestamp, isDownbeat)
    /\ hist' = [hist EXCEPT
                  !.beatSince = TRUE,
                  !.sortedBeats =
                      @ /\ (Len(beatGroups) = 0 \/
                            LET group == beatGroups[Len(beatGroups)]
                            IN  timestamp >= group[Len(group)].timestamp)]
    /\ UNCHANGED <<pendingNotes, lastBeatTimestamp, smoothedInterval, isFirstBeat,
                   defaultTatum, currentMeasureTatumIndex, drawNoteSet, emitted,
                   lastFlush, call>>

\* the drawNote calls of one drawBuffedNotes call, the first one marked when
\* nothing was drawn since the start or the last resetScorify
MarkFresh(out, fresh) ==
    [i \in 1..Len(out) |-> IF i = 1 THEN [out[i] EXCEPT !.fresh = fresh] ELSE out[i]]

\* the effect of drawBuffedNotes() on the engine and on the history
RunDrawBuffedNotes ==
    IF returnsEarly(beatGroups, drawNoteSet)
    THEN /\ lastFlush' = [NoFlush EXCEPT
                            !.early = IF Len(beatGroups) = 0 THEN "noGroups" ELSE "noDrawNote",
                            !.pendingBefore = Len(pendingNotes)]
         /\ UNCHANGED <<engine, drawNoteSet, emitted, hist>>
    ELSE \E r \in {drawResult(pendingNotes, beatGroups, lastBeatTimestamp,
                              smoothedInterval, isFirstBeat, defaultTatum,
                              currentMeasureTatumIndex)} :
         LET latestGroup == beatGroups[Len(beatGroups)]
         IN  /\ r.currentMeasureTatumIndex <= MaxMeasureIndex
             /\ pendingNotes' = r.pendingNotes
             /\ lastBeatTimestamp' = r.lastBeatTimestamp
             /\ smoothedInterval' = r.smoothedInterval
             /\ isFirstBeat' = r.isFirstBeat
             /\ currentMeasureTatumIndex' = r.currentMeasureTatumIndex
             /\ emitted' = emitted \o MarkFresh(r.out, hist.fresh)
             /\ lastFlush' =
                    [ran |-> TRUE, from |-> Len(emitted),
                     measureBefore |-> currentMeasureTatumIndex,
                     tatum |-> defaultTatum, virtualBeats |-> r.virtualBeats,
                     beatTime |-> r.beatTime, lastBefore |-> lastBeatTimestamp,
                     smoothedBefore |-> smoothedInterval,
                     newGroup |-> hist.drawnGroup # Len(beatGroups),
                     beatSince |-> hist.beatSince, firstBefore |-> isFirstBeat,
                     firstIsDownbeat |-> latestGroup[1].isDownbeat,
                     firstTimestamp |-> latestGroup[1].timestamp,
                     sortedBeats |-> hist.sortedBeats,
                     early |-> "", pendingBefore |-> Len(pendingNotes),
                     keptBefore |-> IF lastFlush.early = "noGroups"
                                    THEN lastFlush.pendingBefore ELSE 0]
             /\ hist' = [hist EXCEPT !.drawnGroup = Len(beatGroups),
                                     !.beatSince = FALSE,
                                     !.fresh = @ /\ Len(r.out) = 0]
             /\ UNCHANGED <<beatGroups, defaultTatum, drawNoteSet>>

\* drawBuffedNotes()
DrawBuffedNotes == RunDrawBuffedNotes /\ UNCHANGED call

\* the effect of resetScorify() on the engine and on the history
RunResetScorify ==
    /\ pendingNotes' = <<>>
    /\ beatGroups' = <<>>
    /\ lastBeatTimestamp' = NULL
    /\ smoothedInterval' = RInt(DefaultInterval)
    /\ isFirstBeat' = TRUE
    /\ emitted' = <<>>
    /\ lastFlush' = NoFlush
    /\ hist' = [fresh |-> TRUE] @@ NoHist
    /\ UNCHANGED <<defaultTatum, currentMeasureTatumIndex, drawNoteSet>>

\* resetScorify()
ResetScorify == RunResetScorify /\ UNCHANGED call

\* updateTatum that also starts the measure again
UpdateTatum_RestartsMeasure(tatum) ==
    /\ defaultTatum' = tatum
    /\ currentMeasureTatumIndex' = 0
    /\ UNCHANGED <<pendingNotes, beatGroups, lastBeatTimestamp, smoothedInterval,
                   isFirstBeat, drawNoteSet, emitted, lastFlush, hist, call>>

\* updateTatum(tatum)
UpdateTatum(tatum) ==
    /\ defaultTatum' = tatum
    /\ UNCHANGED <<pendingNotes, beatGroups, lastBeatTimestamp, smoothedInterval,
                   isFirstBeat, currentMeasureTatumIndex, drawNoteSet, emitted,
                   lastFlush, hist, call>>

\* the effect that installs window.drawNote: it runs when the component mounts
\* and, after its own cleanup (delete window.drawNote), whenever drawNote changes
InstallDrawNote ==
    /\ drawNoteSet' = TRUE
    /\ UNCHANGED <<engine, emitted, lastFlush, hist, call>>

\* the (midi, staff) of the next addNote call
NextNote == NoteInputs[(hist.added % Len(NoteInputs)) + 1]

Next ==
    \/ \E t \in Times :
          /\ hist.added < MaxNotes
          /\ AddNote(NextNote[1], NextNote[2], t)
    \/ \E t \in Times, d \in BOOLEAN :
          /\ Detections(beatGroups, Len(beatGroups)) < MaxBeats
          /\ AddBeat(t, d)
    \/ DrawBuffedNotes
    \/ ResetScorify
    \/ \E t \in TatumInputs : UpdateTatum(t)
    \/ InstallDrawNote

Spec == Init /\ [][Next]_vars

(***************************************************************************)
(* Vocabulary of the properties                                            *)
(***************************************************************************)
\* the positions in emitted of the notes the latest drawBuffedNotes call drew
LastDrawn == (lastFlush.from + 1)..Len(emitted)

\* the latest call worked on a group counted as a downbeat: at the start of
\* scorification, or its first detection is flagged downbeat and lies within the
\* on-beat tolerance of the group's onset time
LastGroupIsDownbeat ==
    \/ lastFlush.firstBefore
    \/ /\ lastFlush.firstIsDownbeat
       /\ RLt(RAbs(RSub(RInt(lastFlush.firstTimestamp), lastFlush.beatTime)),
              RInt(ON_BEAT_TOLERANCE_MS))

\* the tatums between the previous beat and the beat of the latest call
LastSpan ==
    IF lastFlush.newGroup THEN (1 + lastFlush.virtualBeats) * lastFlush.tatum ELSE 0

(***************************************************************************)
(* C1                                                                      *)
(***************************************************************************)
\* C1: for every beat group, at most one of the notes drawn for it carries
\* newBar = TRUE, whether they were drawn by one drawBuffedNotes call or several.
C1_OneBarPerGroup ==
    \A g \in 1..Len(beatGroups) :
        Cardinality({i \in 1..Len(emitted) : emitted[i].group = g /\ emitted[i].newBar}) <= 1

(***************************************************************************)
(* C2                                                                      *)
(***************************************************************************)
\* C2: a drawBuffedNotes call with no addBeat since the previous
\* drawing call leaves currentMeasureTatumIndex unchanged, whatever notes were
\* added in between.
C2_RepeatedGroupKeepsIndex ==
    (lastFlush.ran /\ ~lastFlush.beatSince)
        => currentMeasureTatumIndex = lastFlush.measureBefore

(***************************************************************************)
(* C3                                                                      *)
(***************************************************************************)
\* C3: when the addBeat timestamps never decreased, a drawBuffedNotes call on a
\* new beat group with no virtual beats leaves currentMeasureTatumIndex at its
\* previous value plus defaultTatum, or at 0 when the group is a downbeat.
C3_GridAdvancesOneBeat ==
    (/\ lastFlush.ran
     /\ lastFlush.newGroup
     /\ lastFlush.virtualBeats = 0
     /\ lastFlush.sortedBeats)
        => currentMeasureTatumIndex =
               IF LastGroupIsDownbeat THEN 0 ELSE lastFlush.measureBefore + lastFlush.tatum

(***************************************************************************)
(* C4: getVirtualBeats on its own                                          *)
(***************************************************************************)
\* arguments of getVirtualBeats: beat times, previous beat times (null, whole
\* and fractional group onset times) and smoothed intervals
VBTimes == {0, 200, 500, 749, 750, 1000, 1250, 1500, 2000, 2250, 5000}
VBLasts == {NULL, RInt(0), RInt(160), Rat(1000, 3), RInt(500)}
VBIntervals == {RInt(500), RInt(748), RInt(850), RInt(1000), Rat(4373, 5)}

InitVB ==
    /\ InitEngine
    /\ call \in {[fn |-> "getVirtualBeats", done |-> FALSE, result |-> 0,
                  currentBeatTime |-> RInt(t), last |-> l, smoothed |-> e] :
                    t \in VBTimes, l \in VBLasts, e \in VBIntervals}

CallGetVirtualBeats ==
    /\ call.fn = "getVirtualBeats"
    /\ ~call.done
    /\ call' = [call EXCEPT
                  !.done = TRUE,
                  !.result = getVirtualBeats(call.currentBeatTime, call.last, call.smoothed)]
    /\ UNCHANGED <<engine, drawNoteSet, emitted, lastFlush, hist>>

NextVB == CallGetVirtualBeats

SpecVB == InitVB /\ [][NextVB]_vars

\* k is Math.round(x): k - 1/2 <= x < k + 1/2
IsRounded(k, x) ==
    /\ ~RLt(x, RSub(RInt(k), [n |-> 1, d |-> 2]))
    /\ RLt(x, RAdd(RInt(k), [n |-> 1, d |-> 2]))

\* C4: getVirtualBeats returns 0 when there is no previous beat time or when
\* observed = currentBeatTime - lastBeatTimestamp is below 1.5 * smoothedInterval,
\* otherwise max(0, round(observed / smoothedInterval) - 1); it is never negative,
\* and observed 2000 with smoothedInterval 500 gives 3.
C4_VirtualBeats ==
    call.fn = "getVirtualBeats" /\ call.done =>
        /\ call.result >= 0
        /\ call.last = NULL => call.result = 0
        /\ call.last # NULL =>
             LET observed == RSub(call.currentBeatTime, call.last)
             IN  IF RLt(RMul(observed, RInt(2)), RMul(call.smoothed, RInt(3)))
                 THEN call.result = 0
                 ELSE \E k \in 0..20 :
                         /\ IsRounded(k, RDiv(observed, call.smoothed))
                         /\ call.result = (IF k - 1 > 0 THEN k - 1 ELSE 0)
        /\ (call.last = RInt(0) /\ call.currentBeatTime = RInt(2000)
              /\ call.smoothed = RInt(500)) => call.result = 3

\* C4 witness: beats at 0 and 2000 with smoothedInterval 500 were given and
\* three virtual beats came back
C4_Witness ==
    /\ call.fn = "getVirtualBeats"
    /\ call.done
    /\ call.last = RInt(0)
    /\ call.currentBeatTime = RInt(2000)
    /\ call.smoothed = RInt(500)
    /\ call.result = 3

(***************************************************************************)
(* C5                                                                      *)
(***************************************************************************)
\* C5: a drawBuffedNotes call on a new beat group that is not a downbeat and for
\* which v >= 1 virtual beats were inferred advances currentMeasureTatumIndex by
\* exactly (1 + v) * defaultTatum, whatever notes were pending.
C5_GridAdvancesOverGap ==
    (/\ lastFlush.ran
     /\ lastFlush.newGroup
     /\ ~LastGroupIsDownbeat
     /\ lastFlush.virtualBeats >= 1)
        => currentMeasureTatumIndex =
               lastFlush.measureBefore + (1 + lastFlush.virtualBeats) * lastFlush.tatum

(***************************************************************************)
(* C6                                                                      *)
(***************************************************************************)
\* C6: every note within the on-beat tolerance of the onset time of the beat
\* group being drawn is drawn at the beat's own grid index: the index before the
\* call plus the span to the beat, or 0 when the group is a downbeat.
C6_OnBeatNotesSnapToBeat ==
    lastFlush.ran =>
        \A i \in LastDrawn :
            emitted[i].onBeat =>
                emitted[i].positionInMeasure =
                    IF LastGroupIsDownbeat THEN 0 ELSE lastFlush.measureBefore + LastSpan

(***************************************************************************)
(* C7                                                                      *)
(***************************************************************************)
\* C7: after resetScorify in any reachable state every piece of engine state has
\* its initial value: no pending notes, no beat groups, no last beat time, the
\* default smoothed interval, currentMeasureTatumIndex 0 and isFirstBeat true.
C7_ResetRestoresInitialState ==
    [][ResetScorify =>
          /\ pendingNotes' = <<>>
          /\ beatGroups' = <<>>
          /\ lastBeatTimestamp' = NULL
          /\ smoothedInterval' = RInt(DefaultInterval)
          /\ currentMeasureTatumIndex' = 0
          /\ isFirstBeat' = TRUE]_vars

(***************************************************************************)
(* C8                                                                      *)
(***************************************************************************)
\* C8: the first note drawn after the start or after resetScorify has
\* newBar = TRUE and positionInMeasure = 0, whatever the isDownbeat flags of the
\* detections and however many drawing calls that drew nothing came before.
C8_FirstNoteStartsBar ==
    \A i \in 1..Len(emitted) :
        emitted[i].fresh => emitted[i].newBar /\ emitted[i].positionInMeasure = 0

\* C8 witness: the first note since a reset was drawn by a second call on a
\* group not flagged downbeat, with an index left over from before the reset
C8_Witness ==
    /\ lastFlush.ran
    /\ lastFlush.from = 0
    /\ Len(emitted) >= 1
    /\ emitted[1].fresh
    /\ ~lastFlush.newGroup
    /\ ~lastFlush.firstIsDownbeat
    /\ lastFlush.measureBefore > 0

(***************************************************************************)
(* C9                                                                      *)
(***************************************************************************)
\* only notes carrying the timestamp of the first beat group, all of whose
\* detections carry that timestamp too, have been drawn since the start or reset
ChordAtStart ==
    /\ Len(beatGroups) = 1
    /\ Len(emitted) >= 1
    /\ \A k \in 1..Len(beatGroups[1]) :
           beatGroups[1][k].timestamp = beatGroups[1][1].timestamp
    /\ \A i \in 1..Len(emitted) : emitted[i].timestamp = beatGroups[1][1].timestamp

\* C9: at the start, the notes carrying the timestamp of the first beat group,
\* drawn after each note's detection or together, are all drawn at
\* positionInMeasure 0 and exactly one of them has newBar = TRUE.
C9_ChordAtStartOneBar ==
    ChordAtStart =>
        /\ \A i \in 1..Len(emitted) : emitted[i].positionInMeasure = 0
        /\ Cardinality({i \in 1..Len(emitted) : emitted[i].newBar}) = 1

\* C9 witness: two notes of the first beat, each drawn right after its detection
\* (two detections, two drawing calls), as in the preset replay
C9_Witness ==
    /\ ChordAtStart
    /\ Len(beatGroups[1]) = 2
    /\ beatGroups[1][1].isDownbeat
    /\ Len(emitted) = 2
    /\ lastFlush.ran
    /\ lastFlush.from = 1

(***************************************************************************)
(* C10                                                                     *)
(***************************************************************************)
\* C10: within one drawBuffedNotes call the notes are drawn in
\* non-decreasing order of their timestamps, for any order of the addNote calls.
C10_DrawnInTimestampOrder ==
    \A i, j \in LastDrawn : i < j => emitted[i].timestamp <= emitted[j].timestamp

(***************************************************************************)
(* C11                                                                     *)
(***************************************************************************)
\* the addNote calls (numbered since the last reset) whose notes are in notes
Arrivals(notes) == {notes[i].arrival : i \in 1..Len(notes)}

\* C11: every drawNote call carries the midi and staff of one earlier addNote
\* call, no added note is drawn twice, and a note leaves pendingNotes exactly
\* when it is drawn: the notes added since the last reset are the pending ones
\* plus the drawn ones, none in both.
C11_EachNoteDrawnOnce ==
    /\ \A i \in 1..Len(emitted) :
          /\ emitted[i].arrival \in 1..hist.added
          /\ <<emitted[i].midi, emitted[i].staff>> =
                 NoteInputs[((emitted[i].arrival - 1) % Len(NoteInputs)) + 1]
    /\ \A i, j \in 1..Len(emitted) : i # j => emitted[i].arrival # emitted[j].arrival
    /\ \A i, j \in 1..Len(pendingNotes) :
          i # j => pendingNotes[i].arrival # pendingNotes[j].arrival
    /\ Arrivals(pendingNotes) \cap Arrivals(emitted) = {}
    /\ Arrivals(pendingNotes) \cup Arrivals(emitted) = 1..hist.added

\* C11 witness: two notes were drawn by two drawBuffedNotes calls
C11_Witness ==
    /\ lastFlush.ran
    /\ lastFlush.from = 1
    /\ Len(emitted) = 2
    /\ pendingNotes = <<>>

(***************************************************************************)
(* C12, C13, C14: beat grouping, with more detections and no notes         *)
(***************************************************************************)
\* detections held in beatGroups in SpecBeats
MaxGroupedBeats == 3

\* timestamps (ms) handed to addBeat in SpecBeats: three within the grouping
\* window of their neighbour, one at 1.5 times the default interval, one far away
BeatTimes == {0, 200, 400, 1500, 5000}

NextBeats ==
    \/ \E t \in BeatTimes, d \in BOOLEAN :
          /\ Detections(beatGroups, Len(beatGroups)) < MaxGroupedBeats
          /\ AddBeat(t, d)
    \/ DrawBuffedNotes
    \/ ResetScorify
    \/ InstallDrawNote

SpecBeats == Init /\ [][NextBeats]_vars

\* the last detection of the last group
LastDetection == beatGroups[Len(beatGroups)][Len(beatGroups[Len(beatGroups)])]

\* C12: addBeat(t, d) makes a one-element group when beatGroups is empty;
\* otherwise it appends the detection to the last group if and only if the gap
\* between t and the timestamp of the last detection of the last group is below
\* GROUP_WINDOW_MS, and otherwise appends a new one-element group.
C12_GroupsByGap ==
    [][\A t \in BeatTimes, d \in BOOLEAN :
          AddBeat(t, d) =>
              LET ev == [timestamp |-> t, isDownbeat |-> d]
              IN  IF beatGroups = <<>>
                  THEN beatGroups' = <<<<ev>>>>
                  ELSE IF Abs(t - LastDetection.timestamp) < GROUP_WINDOW_MS
                       THEN beatGroups' =
                                [beatGroups EXCEPT ![Len(beatGroups)] = Append(@, ev)]
                       ELSE beatGroups' = Append(beatGroups, <<ev>>)]_vars

\* beatGroups' holds every group of beatGroups unchanged, except that the last
\* one may have grown at its end, followed by any new groups
GroupsExtended ==
    /\ Len(beatGroups') >= Len(beatGroups)
    /\ \A g \in 1..Len(beatGroups) :
          /\ Len(beatGroups'[g]) >= Len(beatGroups[g])
          /\ SubSeq(beatGroups'[g], 1, Len(beatGroups[g])) = beatGroups[g]
          /\ g < Len(beatGroups) => beatGroups'[g] = beatGroups[g]

\* C13: between two resets beatGroups is append-only: every group is non-empty,
\* each addBeat adds exactly one detection and keeps every earlier group as it
\* was (the last one may grow at its end), and no other operation,
\* drawBuffedNotes included, changes beatGroups.
C13_GroupsAppendOnly ==
    /\ [](\A g \in 1..Len(beatGroups) : Len(beatGroups[g]) > 0)
    /\ [][\/ ResetScorify
          \/ /\ \E t \in BeatTimes, d \in BOOLEAN : AddBeat(t, d)
             /\ Detections(beatGroups', Len(beatGroups')) =
                    Detections(beatGroups, Len(beatGroups)) + 1
             /\ GroupsExtended
          \/ beatGroups' = beatGroups]_vars

\* C13 witness: a group of two detections is followed by a second group, and
\* drawBuffedNotes has worked on the second group
C13_Witness ==
    /\ Len(beatGroups) = 2
    /\ Len(beatGroups[1]) = 2
    /\ lastFlush.ran
    /\ hist.drawnGroup = 2

\* C14: whatever the order of the addBeat timestamps, every member of a beat
\* group but the first lies within GROUP_WINDOW_MS of its predecessor in the group.
C14_ChainedProximity ==
    \A g \in 1..Len(beatGroups) :
        \A k \in 2..Len(beatGroups[g]) :
            Abs(beatGroups[g][k].timestamp - beatGroups[g][k - 1].timestamp)
                < GROUP_WINDOW_MS

(***************************************************************************)
(* C15, C16: tempo smoothing and virtual beats within one drawBuffedNotes  *)
(***************************************************************************)
\* the interval the latest call observed: its beat time minus the previous one
LastObserved == RSub(lastFlush.beatTime, lastFlush.lastBefore)

\* the latest call met a previous beat time and an interval above 1.5 times the
\* smoothed interval
LastIsJump ==
    /\ lastFlush.lastBefore # NULL
    /\ RGt(RMul(LastObserved, RInt(2)), RMul(lastFlush.smoothedBefore, RInt(3)))

\* the latest call met a previous beat time and an interval below the floor
LastIsBelowFloor ==
    /\ lastFlush.lastBefore # NULL
    /\ RLt(LastObserved, RInt(ON_BEAT_TOLERANCE_MS))

\* C15: lastBeatTimestamp is null exactly until the first drawing call after the
\* start or a reset; that call only records the beat time and leaves
\* smoothedInterval alone.  A later call leaves smoothedInterval alone when the
\* observed interval is above 1.5 * smoothedInterval or below the floor
\* (ON_BEAT_TOLERANCE_MS), and otherwise sets it to 0.7 * smoothedInterval +
\* 0.3 * observed.
C15_TempoUpdate ==
    /\ (lastBeatTimestamp = NULL) <=> (hist.drawnGroup = 0)
    /\ lastFlush.ran =>
          /\ lastBeatTimestamp = lastFlush.beatTime
          /\ IF lastFlush.lastBefore = NULL \/ LastIsJump \/ LastIsBelowFloor
             THEN smoothedInterval = lastFlush.smoothedBefore
             ELSE RMul(smoothedInterval, RInt(10)) =
                      RAdd(RMul(lastFlush.smoothedBefore, RInt(7)),
                           RMul(LastObserved, RInt(3)))

\* C15 witness: a call folded an interval of exactly 1.5 * smoothedInterval
\* into smoothedInterval
C15_Witness ==
    /\ lastFlush.ran
    /\ lastFlush.lastBefore # NULL
    /\ RMul(LastObserved, RInt(2)) = RMul(lastFlush.smoothedBefore, RInt(3))
    /\ smoothedInterval # lastFlush.smoothedBefore

\* the latest call folded the interval it observed into smoothedInterval
LastIsFolded ==
    /\ lastFlush.ran
    /\ \/ smoothedInterval # lastFlush.smoothedBefore
       \/ lastFlush.lastBefore # NULL /\ ~LastIsJump /\ ~LastIsBelowFloor

\* C16: within one drawBuffedNotes call an interval is never both folded into
\* smoothedInterval and counted as a gap: when updateBPM rejected it as a jump
\* the call inferred at least one virtual beat, and when it was folded in the
\* call inferred none.
C16_FoldedOrGap ==
    /\ (lastFlush.ran /\ LastIsJump /\ smoothedInterval = lastFlush.smoothedBefore)
          => lastFlush.virtualBeats >= 1
    /\ LastIsFolded => lastFlush.virtualBeats = 0

\* C16 witness: the interval folded in was longer than the smoothed interval
\* that came out, and no virtual beat was inferred
C16_Witness ==
    /\ LastIsFolded
    /\ lastFlush.lastBefore # NULL
    /\ RGt(LastObserved, smoothedInterval)
    /\ lastFlush.virtualBeats = 0

(***************************************************************************)
(* C17, C18: the early returns of drawBuffedNotes                          *)
(***************************************************************************)
\* the step is the first drawBuffedNotes call since the start or the last reset
\* that finds a beat group
FirstCallWithGroups ==
    /\ Len(beatGroups) > 0
    /\ hist.drawnGroup = 0
    /\ DrawBuffedNotes

\* the step draws every pending note, in order, and empties pendingNotes
DrawsAllPending ==
    /\ pendingNotes' = <<>>
    /\ Len(emitted') = Len(emitted) + Len(pendingNotes)
    /\ \A i \in 1..Len(pendingNotes) :
          /\ emitted'[Len(emitted) + i].arrival = pendingNotes[i].arrival
          /\ emitted'[Len(emitted) + i].midi = pendingNotes[i].midi
          /\ emitted'[Len(emitted) + i].staff = pendingNotes[i].staff

CallWithoutDrawNote ==
    /\ Len(beatGroups) > 0
    /\ ~drawNoteSet
    /\ DrawBuffedNotes

NumberInputs == Times \cup NonFinite

NextNumbers ==
    \/ \E t \in NumberInputs :
          /\ hist.added < MaxNotes
          /\ AddNote(NextNote[1], NextNote[2], t)
    \/ \E t \in NumberInputs, d \in BOOLEAN :
          /\ Detections(beatGroups, Len(beatGroups)) < MaxBeats
          /\ AddBeat(t, d)
    \/ ResetScorify

SpecNumbers == Init /\ [][NextNumbers]_vars

\* C19: addNote and addBeat called with a non-finite timestamp (NaN, Infinity,
\* -Infinity) discard the entry: pendingNotes, beatGroups and the rest of the
\* engine state stay as they were.
C19_NonFiniteDiscarded ==
    [][\A t \in NonFinite :
          (\/ AddNote(NextNote[1], NextNote[2], t)
           \/ \E d \in BOOLEAN : AddBeat(t, d))
              => UNCHANGED engine]_vars

(***************************************************************************)
(* C20                                                                     *)
(***************************************************************************)
\* C20: a note that is not the first one drawn since the start or the last
\* reset is drawn with newBar = TRUE only if the first detection of the latest
\* beat group is flagged downbeat and the note lies within the on-beat tolerance
\* of the group's onset time; the flags of the later detections of the group
\* never start a measure.
C20_BarOnlyOnFlaggedFirstDetection ==
    lastFlush.ran =>
        \A i \in LastDrawn :
            (~emitted[i].fresh /\ emitted[i].newBar)
                => (lastFlush.firstIsDownbeat /\ emitted[i].onBeat)

\* C20 witness: a note that was not the first one drawn started a measure
C20_Witness ==
    /\ lastFlush.ran
    /\ \E i \in LastDrawn : ~emitted[i].fresh /\ emitted[i].newBar

(***************************************************************************)
(* HandSeparator (handSeparator.ts)                                        *)
(***************************************************************************)
\* number of classify calls made on one pair of instances
MaxClassify == 4
\* pitches handed to classify: outside the hard bounds, on them, and around
\* the initial centroids and their midpoint
HandPitches == {30, 36, 47, 58, 60, 61, 72, 84, 90}

HARD_BASS_CEILING == 84
HARD_TREBLE_FLOOR == 36
\* the learning rate 0.1
alpha == [n |-> 1, d |-> 10]

\* a constructor that starts with the two centroids exchanged
NewHandSeparator_Exchanged ==
    [leftCentroid |-> RInt(72), rightCentroid |-> RInt(48)]

\* initial guesses that are not whole numbers and lie close together
NewHandSeparator_FractionalGuesses ==
    [leftCentroid |-> Rat(599, 10), rightCentroid |-> Rat(6091, 100)]

\* the fields of a new HandSeparator
NewHandSeparator == [leftCentroid |-> RInt(48), rightCentroid |-> RInt(72)]

\* classify that returns the stave of the farther centroid
classify_FartherCentroid(h, pitch) ==
    IF pitch > HARD_BASS_CEILING THEN [hand |-> h, staff |-> "treble"]
    ELSE IF pitch < HARD_TREBLE_FLOOR THEN [hand |-> h, staff |-> "bass"]
    ELSE
      LET distToLeft == RAbs(RSub(RInt(pitch), h.leftCentroid))
          distToRight == RAbs(RSub(RInt(pitch), h.rightCentroid))
      IN  IF ~RLt(distToLeft, distToRight)
          THEN LET moved == RAdd(RMul(h.leftCentroid, RSub(RInt(1), alpha)),
                                 RMul(RInt(pitch), alpha))
                   left == IF RGt(moved, h.rightCentroid)
                           THEN RSub(h.rightCentroid, RInt(1))
                           ELSE moved
               IN  [hand |-> [h EXCEPT !.leftCentroid = left], staff |-> "bass"]
          ELSE LET moved == RAdd(RMul(h.rightCentroid, RSub(RInt(1), alpha)),
                                 RMul(RInt(pitch), alpha))
                   right == IF RLt(moved, h.leftCentroid)
                            THEN RAdd(h.leftCentroid, RInt(1))
                            ELSE moved
               IN  [hand |-> [h EXCEPT !.rightCentroid = right], staff |-> "treble"]

\* classify without the two early returns
classify_NoHardBounds(h, pitch) ==
    LET distToLeft == RAbs(RSub(RInt(pitch), h.leftCentroid))
        distToRight == RAbs(RSub(RInt(pitch), h.rightCentroid))
    IN  IF ~RGt(distToLeft, distToRight)
        THEN [hand |-> [h EXCEPT !.leftCentroid =
                          RAdd(RMul(h.leftCentroid, RSub(RInt(1), alpha)),
                               RMul(RInt(pitch), alpha))],
              staff |-> "bass"]
        ELSE [hand |-> [h EXCEPT !.rightCentroid =
                          RAdd(RMul(h.rightCentroid, RSub(RInt(1), alpha)),
                               RMul(RInt(pitch), alpha))],
              staff |-> "treble"]

\* classify with a tie given to the right hand (distToLeft < distToRight)
classify_TieGoesTreble(h, pitch) ==
    IF pitch > HARD_BASS_CEILING THEN [hand |-> h, staff |-> "treble"]
    ELSE IF pitch < HARD_TREBLE_FLOOR THEN [hand |-> h, staff |-> "bass"]
    ELSE
      LET distToLeft == RAbs(RSub(RInt(pitch), h.leftCentroid))
          distToRight == RAbs(RSub(RInt(pitch), h.rightCentroid))
      IN  IF RLt(distToLeft, distToRight)
          THEN [hand |-> [h EXCEPT !.leftCentroid =
                            RAdd(RMul(h.leftCentroid, RSub(RInt(1), alpha)),
                                 RMul(RInt(pitch), alpha))],
                staff |-> "bass"]
          ELSE [hand |-> [h EXCEPT !.rightCentroid =
                            RAdd(RMul(h.rightCentroid, RSub(RInt(1), alpha)),
                                 RMul(RInt(pitch), alpha))],
                staff |-> "treble"]

\* classify(pitch) on an instance with fields h: the fields afterwards and the
\* returned staff
classify(h, pitch) ==
    IF pitch > HARD_BASS_CEILING THEN [hand |-> h, staff |-> "treble"]
    ELSE IF pitch < HARD_TREBLE_FLOOR THEN [hand |-> h, staff |-> "bass"]
    ELSE
      LET distToLeft == RAbs(RSub(RInt(pitch), h.leftCentroid))
          distToRight == RAbs(RSub(RInt(pitch), h.rightCentroid))
      IN  IF ~RGt(distToLeft, distToRight)
          THEN LET moved == RAdd(RMul(h.leftCentroid, RSub(RInt(1), alpha)),
                                 RMul(RInt(pitch), alpha))
                   left == IF RGt(moved, h.rightCentroid)
                           THEN RSub(h.rightCentroid, RInt(1))
                           ELSE moved
               IN  [hand |-> [h EXCEPT !.leftCentroid = left], staff |-> "bass"]
          ELSE LET moved == RAdd(RMul(h.rightCentroid, RSub(RInt(1), alpha)),
                                 RMul(RInt(pitch), alpha))
                   right == IF RLt(moved, h.leftCentroid)
                            THEN RAdd(h.leftCentroid, RInt(1))
                            ELSE moved
               IN  [hand |-> [h EXCEPT !.rightCentroid = right], staff |-> "treble"]

\* reset that leaves the right centroid where it is
reset_KeepsRight(h) == [h EXCEPT !.leftCentroid = RInt(48)]

\* reset() on an instance with fields h
reset(h) == [h EXCEPT !.leftCentroid = RInt(48), !.rightCentroid = RInt(72)]

\* Two instances: `one` lives through any calls; `two` is constructed anew
\* whenever `one` is reset and from then on is given the calls `one` is given.
\* paired holds while the two have seen the same calls since then.
InitHands ==
    /\ InitEngine
    /\ call = [fn |-> "HandSeparator", one |-> NewHandSeparator,
               two |-> NewHandSeparator, paired |-> TRUE, calls |-> 0,
               resets |-> 0, op |-> "new", pitch |-> 0,
               before |-> NewHandSeparator, staff |-> "", staffTwo |-> ""]

\* one.classify(pitch) alone
ClassifyOne(pitch) ==
    /\ call.fn = "HandSeparator"
    /\ call.calls < MaxClassify
    /\ \E r \in {classify(call.one, pitch)} :
         call' = [call EXCEPT !.one = r.hand, !.paired = FALSE,
                              !.calls = @ + 1, !.op = "classify",
                              !.pitch = pitch, !.before = call.one,
                              !.staff = r.staff, !.staffTwo = ""]
    /\ UNCHANGED <<engine, drawNoteSet, emitted, lastFlush, hist>>

\* one.classify(pitch) and two.classify(pitch)
ClassifyBoth(pitch) ==
    /\ call.fn = "HandSeparator"
    /\ call.calls < MaxClassify
    /\ \E r \in {classify(call.one, pitch)}, s \in {classify(call.two, pitch)} :
         call' = [call EXCEPT !.one = r.hand, !.two = s.hand,
                              !.calls = @ + 1, !.op = "classifyBoth",
                              !.pitch = pitch, !.before = call.one,
                              !.staff = r.staff, !.staffTwo = s.staff]
    /\ UNCHANGED <<engine, drawNoteSet, emitted, lastFlush, hist>>

\* one.reset(); two = new HandSeparator()
ResetHands ==
    /\ call.fn = "HandSeparator"
    /\ call.op # "reset"
    /\ call' = [call EXCEPT !.one = reset(call.one), !.two = NewHandSeparator,
                            !.paired = TRUE, !.resets = 1, !.op = "reset",
                            !.pitch = 0, !.before = call.one,
                            !.staff = "", !.staffTwo = ""]
    /\ UNCHANGED <<engine, drawNoteSet, emitted, lastFlush, hist>>

NextHands ==
    \/ \E pitch \in HandPitches : ClassifyOne(pitch)
    \/ \E pitch \in HandPitches : ClassifyBoth(pitch)
    \/ ResetHands

SpecHands == InitHands /\ [][NextHands]_vars

\* the latest operation on `one` was a classify call
Classified == call.fn = "HandSeparator" /\ call.op \in {"classify", "classifyBoth"}

C22_HardBounds ==
    Classified =>
        /\ call.pitch > 84 => call.staff = "treble" /\ call.one = call.before
        /\ call.pitch < 36 => call.staff = "bass" /\ call.one = call.before

\* C22 witness: a pitch above 84 was classified by an instance whose two
\* centroids had both moved before
C22_Witness ==
    /\ Classified
    /\ call.pitch > 84
    /\ call.before.leftCentroid # RInt(48)
    /\ call.before.rightCentroid # RInt(72)

\* C23: for a pitch inside the hard bounds classify returns the stave of the
\* numerically closer centroid, the lower stave on a tie, and then moves only
\* that centroid to centroid * 0.9 + pitch * 0.1; the other one is unchanged.
C23_CloserCentroidMoves ==
    (Classified /\ call.pitch >= 36 /\ call.pitch <= 84) =>
        LET toLeft == RAbs(RSub(call.before.leftCentroid, RInt(call.pitch)))
            toRight == RAbs(RSub(call.before.rightCentroid, RInt(call.pitch)))
        IN  IF RLt(toLeft, toRight) \/ toLeft = toRight
            THEN /\ call.staff = "bass"
                 /\ RMul(RInt(10), call.one.leftCentroid)
                      = RAdd(RMul(RInt(9), call.before.leftCentroid), RInt(call.pitch))
                 /\ call.one.rightCentroid = call.before.rightCentroid
            ELSE /\ call.staff = "treble"
                 /\ RMul(RInt(10), call.one.rightCentroid)
                      = RAdd(RMul(RInt(9), call.before.rightCentroid), RInt(call.pitch))
                 /\ call.one.leftCentroid = call.before.leftCentroid

\* C23 witness: a pitch at the same distance from both centroids was classified
C23_Witness ==
    /\ Classified
    /\ call.pitch >= 36
    /\ call.pitch <= 84
    /\ RAbs(RSub(call.before.leftCentroid, RInt(call.pitch)))
         = RAbs(RSub(call.before.rightCentroid, RInt(call.pitch)))
    /\ call.one # call.before

LastEmissions == {emitted[i] : i \in (lastFlush.from + 1)..Len(emitted)}

\* C25: every emission that starts a new bar has positionInMeasure 0.
C25_NewBarAtPositionZero ==
    \A i \in 1..Len(emitted) : emitted[i].newBar => emitted[i].positionInMeasure = 0

\* C25 witness: a drawing call that started with currentMeasureTatumIndex above
\* 0 emitted a note that starts a new bar
C25_Witness ==
    /\ lastFlush.ran
    /\ lastFlush.measureBefore > 0
    /\ \E e \in LastEmissions : e.newBar

\* C26: after a drawBuffedNotes call that works on a new beat group counted as
\* a downbeat, currentMeasureTatumIndex is 0, whether or not a note was pending
\* and whatever other notes the call drew.
C26_DownbeatResetsIndex ==
    (lastFlush.ran /\ lastFlush.newGroup /\ LastGroupIsDownbeat)
        => currentMeasureTatumIndex = 0

\* C27: every note drawn without a new bar has a grid index, positionInMeasure
\* minus currentMeasureTatumIndex at the start of the call, between 0 and the
\* span: (1 + virtualBeats) * defaultTatum for a new group, 0 for a repeated
\* one; a note earlier than the previous beat time has index 0.
C27_IndexWithinSpan ==
    lastFlush.ran =>
        \A i \in LastDrawn :
            ~emitted[i].newBar =>
                LET index == emitted[i].positionInMeasure - lastFlush.measureBefore
                IN  /\ index >= 0
                    /\ index <= LastSpan
                    /\ (lastFlush.lastBefore # NULL
                          /\ RLt(RInt(emitted[i].timestamp), lastFlush.lastBefore))
                         => index = 0

\* C28: the grid index of a drawn note never exceeds 4 * defaultTatum, even
\* when the span that the virtual beats give is larger, so one drawBuffedNotes
\* call never advances currentMeasureTatumIndex by more than 4 * defaultTatum.
C28_IndexAtMostOneMeasure ==
    lastFlush.ran =>
        /\ \A i \in LastDrawn :
              emitted[i].positionInMeasure
                  <= (IF \E j \in LastDrawn : j <= i /\ emitted[j].newBar
                      THEN 0 ELSE lastFlush.measureBefore) + 4 * lastFlush.tatum
        /\ currentMeasureTatumIndex <= lastFlush.measureBefore + 4 * lastFlush.tatum

\* C28 witness: the virtual beats gave a span above 4 * defaultTatum and a note
\* was drawn 4 * defaultTatum after the index the call started with
C28_Witness ==
    /\ lastFlush.ran
    /\ (1 + lastFlush.virtualBeats) * lastFlush.tatum > 4 * lastFlush.tatum
    /\ \E i \in LastDrawn :
          /\ ~emitted[i].newBar
          /\ emitted[i].positionInMeasure = lastFlush.measureBefore + 4 * lastFlush.tatum

(***************************************************************************)
(* C29: the onset time of a beat group                                     *)
(***************************************************************************)
\* the group the latest drawBuffedNotes call worked on, while no addBeat has
\* followed that call
LastGroupDrawn ==
    /\ lastFlush.ran
    /\ ~hist.beatSince
    /\ Len(beatGroups) > 0

\* C29: the onset time of a beat group is the average of its members'
\* timestamps with weight (i + 1)^2 for the i-th member (counted from 0): the
\* timestamp itself for a group of one and, when the timestamps never decrease,
\* a time between the first and the last member's timestamp.
C29_WeightedOnsetTime ==
    LastGroupDrawn =>
        LET group == beatGroups[Len(beatGroups)]
            n == Len(group)
            ts(i) == IF i <= n THEN group[i].timestamp ELSE 0
            weights == IF n = 1 THEN 1 ELSE IF n = 2 THEN 5 ELSE IF n = 3 THEN 14 ELSE 30
        IN  /\ n <= 4
            /\ RMul(RInt(weights), lastFlush.beatTime)
                 = RInt(ts(1) + 4 * ts(2) + 9 * ts(3) + 16 * ts(4))
            /\ n = 1 => lastFlush.beatTime = RInt(group[1].timestamp)
            /\ (\A i \in 1..(n - 1) : group[i].timestamp <= group[i + 1].timestamp)
                 => /\ ~RLt(lastFlush.beatTime, RInt(group[1].timestamp))
                    /\ ~RGt(lastFlush.beatTime, RInt(group[n].timestamp))

\* C29 witness: a group of three detections with increasing timestamps was
\* worked on and its onset time lies strictly between the first and the last
C29_Witness ==
    /\ LastGroupDrawn
    /\ Len(beatGroups[Len(beatGroups)]) = 3
    /\ \A i \in 1..2 : beatGroups[Len(beatGroups)][i].timestamp
                          < beatGroups[Len(beatGroups)][i + 1].timestamp
    /\ RGt(lastFlush.beatTime, RInt(beatGroups[Len(beatGroups)][1].timestamp))
    /\ RLt(lastFlush.beatTime, RInt(beatGroups[Len(beatGroups)][3].timestamp))

(***************************************************************************)
(* C30: the note-on handler, its deferred drawing call and the clear button *)
(***************************************************************************)
\* note-on events of one run
MaxNoteOns == 3
\* values of audioContext.currentTime * 1000 at the note-on events; the clock
\* never runs backwards
SessionTimes == {0, 500, 1000}
SessionPitches == {60, 64}

\* timers: the callbacks queued by setTimeout(..., 0), oldest first; beforeReset
\* marks those queued before the latest handleClear.  sinceReset counts the
\* note-on events handled since the latest handleClear.
InitSession ==
    /\ InitEngine
    /\ call = [fn |-> "setTimeout", timers |-> <<>>, hands |-> NewHandSeparator,
               noteOns |-> 0, sinceReset |-> 0, clock |-> 0]

\* handleNoteOn: the beat tracker's answer (beat and downbeat above their
\* thresholds or not) is an input
HandleNoteOn(pitch, timestamp, beat, downbeat) ==
    /\ call.fn = "setTimeout"
    /\ call.noteOns < MaxNoteOns
    /\ timestamp >= call.clock
    /\ \E c \in {classify(call.hands, pitch)} :
         /\ pendingNotes' = Append(pendingNotes,
                                   [midi |-> pitch, staff |-> c.staff,
                                    timestamp |-> timestamp, arrival |-> hist.added + 1])
         /\ call' = [call EXCEPT
                       !.hands = c.hand,
                       !.noteOns = @ + 1,
                       !.sinceReset = @ + 1,
                       !.clock = timestamp,
                       !.timers = IF beat THEN Append(@, [beforeReset |-> FALSE]) ELSE @]
    /\ IF beat
       THEN /\ beatGroups' = groupBeat(beatGroups, timestamp, downbeat)
            /\ hist' = [hist EXCEPT
                          !.added = @ + 1,
                          !.beatSince = TRUE,
                          !.sortedBeats =
                              @ /\ (Len(beatGroups) = 0 \/
                                    LET group == beatGroups[Len(beatGroups)]
                                    IN  timestamp >= group[Len(group)].timestamp)]
       ELSE /\ ~downbeat
            /\ beatGroups' = beatGroups
            /\ hist' = [hist EXCEPT !.added = @ + 1]
    /\ UNCHANGED <<lastBeatTimestamp, smoothedInterval, isFirstBeat, defaultTatum,
                   currentMeasureTatumIndex, drawNoteSet, emitted, lastFlush>>

\* the callback queued by handleNoteOn runs: drawBuffedNotes()
TimerFires ==
    /\ call.fn = "setTimeout"
    /\ Len(call.timers) > 0
    /\ call' = [call EXCEPT !.timers = Tail(@)]
    /\ RunDrawBuffedNotes

\* handleClear: resetScorify() and handSeparator.reset(); queued callbacks stay
\* queued
HandleClear ==
    /\ call.fn = "setTimeout"
    /\ call' = [call EXCEPT
                  !.hands = reset(@),
                  !.sinceReset = 0,
                  !.timers = [i \in 1..Len(@) |-> [beforeReset |-> TRUE]]]
    /\ RunResetScorify

NextSession ==
    \/ \E pitch \in SessionPitches, timestamp \in SessionTimes, beat, downbeat \in BOOLEAN :
          HandleNoteOn(pitch, timestamp, beat, downbeat)
    \/ TimerFires
    \/ HandleClear
    \/ InstallDrawNote

SpecSession == InitSession /\ [][NextSession]_vars

\* C30: when handleClear runs between a note-on event that adds a beat and the
\* drawing call deferred by that event, and nothing else is added before the
\* deferred call runs, the call draws nothing and leaves the engine in its
\* initial state: no note or beat from before the reset is left to influence
\* what is drawn afterwards.
C30_ResetBeforeDeferredFlush ==
    [][(/\ call.fn = "setTimeout"
        /\ Len(call.timers) > 0
        /\ call.timers[1].beforeReset
        /\ call.sinceReset = 0
        /\ Len(call'.timers) < Len(call.timers))
          => /\ emitted' = emitted
             /\ pendingNotes' = <<>>
             /\ beatGroups' = <<>>
             /\ lastBeatTimestamp' = NULL
             /\ smoothedInterval' = RInt(DefaultInterval)
             /\ currentMeasureTatumIndex' = 0
             /\ isFirstBeat' = TRUE]_vars

(***************************************************************************)
(* C31: one chord on the live path, under two schedules of the deferred    *)
(* drawing calls                                                           *)
(***************************************************************************)
\* notes of the chord
MaxChord == 2
\* note-on times: one note before the chord at 0, the chord around 1000
LeadTimes == {0}
ChordTimes == {1000, 1010}

\* the engine as a value: the module-level variables of scorify.ts, the queued
\* setTimeout callbacks and the drawNote calls made so far
NewEngine ==
    [pendingNotes |-> <<>>, beatGroups |-> <<>>, lastBeatTimestamp |-> NULL,
     smoothedInterval |-> RInt(DefaultInterval), isFirstBeat |-> TRUE,
     currentMeasureTatumIndex |-> 0, timers |-> 0, out |-> <<>>]

\* handleNoteOn with a beat on engine e: addNote, addBeat, setTimeout
noteOnBeat(e, midi, staff, timestamp, isDownbeat) ==
    [e EXCEPT
       !.pendingNotes = Append(@, [midi |-> midi, staff |-> staff,
                                   timestamp |-> timestamp,
                                   arrival |-> Len(e.out) + Len(e.pendingNotes) + 1]),
       !.beatGroups = groupBeat(@, timestamp, isDownbeat),
       !.timers = @ + 1]

\* one queued callback runs on engine e: drawBuffedNotes() with window.drawNote
\* installed and defaultTatum as at module load
timerFires(e) ==
    IF returnsEarly(e.beatGroups, TRUE)
    THEN [e EXCEPT !.timers = @ - 1]
    ELSE CHOOSE x \in
           {[e EXCEPT
                !.pendingNotes = r.pendingNotes,
                !.lastBeatTimestamp = r.lastBeatTimestamp,
                !.smoothedInterval = r.smoothedInterval,
                !.isFirstBeat = r.isFirstBeat,
                !.currentMeasureTatumIndex = r.currentMeasureTatumIndex,
                !.out = @ \o r.out,
                !.timers = @ - 1] :
              r \in {drawResult(e.pendingNotes, e.beatGroups, e.lastBeatTimestamp,
                                e.smoothedInterval, e.isFirstBeat, InitialTatum,
                                e.currentMeasureTatumIndex)}} : TRUE

\* Two runs of the same note-on events: in `each` every deferred call runs
\* before the next note arrives, in `late` the calls of the chord run after the
\* whole chord has arrived.
InitChord ==
    /\ InitEngine
    /\ call = [fn |-> "chord", each |-> NewEngine, late |-> NewEngine,
               hands |-> NewHandSeparator, chord |-> 0, lead |-> 0]

\* a note-on with a beat before the chord; its deferred call runs at once in
\* both runs
LeadNoteOn(pitch, timestamp, isDownbeat) ==
    /\ call.fn = "chord"
    /\ call.chord = 0
    /\ call.lead = 0
    /\ \E c \in {classify(call.hands, pitch)} :
       \E e \in {noteOnBeat(call.each, pitch, c.staff, timestamp, isDownbeat)} :
       \E l \in {noteOnBeat(call.late, pitch, c.staff, timestamp, isDownbeat)} :
       \E ef \in {timerFires(e)}, lf \in {timerFires(l)} :
         call' = [call EXCEPT !.hands = c.hand, !.lead = 1, !.each = ef, !.late = lf]
    /\ UNCHANGED <<engine, drawNoteSet, emitted, lastFlush, hist>>

\* a note-on of the chord: its detection joins the group of the chord
ChordNoteOn(pitch, timestamp, isDownbeat) ==
    /\ call.fn = "chord"
    /\ call.chord < MaxChord
    /\ call.late.timers = call.chord
    /\ call.chord > 0 =>
         Len(groupBeat(call.late.beatGroups, timestamp, isDownbeat))
             = Len(call.late.beatGroups)
    /\ \E c \in {classify(call.hands, pitch)} :
       \E e \in {noteOnBeat(call.each, pitch, c.staff, timestamp, isDownbeat)} :
       \E l \in {noteOnBeat(call.late, pitch, c.staff, timestamp, isDownbeat)} :
       \E ef \in {timerFires(e)} :
         call' = [call EXCEPT !.hands = c.hand, !.chord = @ + 1, !.each = ef, !.late = l]
    /\ UNCHANGED <<engine, drawNoteSet, emitted, lastFlush, hist>>

\* a deferred call of the chord runs in the late run
LateTimerFires ==
    /\ call.fn = "chord"
    /\ call.late.timers > 0
    /\ \E lf \in {timerFires(call.late)} : call' = [call EXCEPT !.late = lf]
    /\ UNCHANGED <<engine, drawNoteSet, emitted, lastFlush, hist>>

NextChord ==
    \/ \E pitch \in SessionPitches, timestamp \in LeadTimes, d \in BOOLEAN :
          LeadNoteOn(pitch, timestamp, d)
    \/ \E pitch \in SessionPitches, timestamp \in ChordTimes, d \in BOOLEAN :
          ChordNoteOn(pitch, timestamp, d)
    \/ LateTimerFires

SpecChord == InitChord /\ [][NextChord]_vars

\* the arguments of the drawNote calls that the claims speak of
Drawn(out) ==
    [i \in 1..Len(out) |-> [midi |-> out[i].midi,
                            positionInMeasure |-> out[i].positionInMeasure,
                            newBar |-> out[i].newBar]]

\* both runs have made all their drawing calls for a chord of several notes
ChordDrawn ==
    /\ call.fn = "chord"
    /\ call.chord > 1
    /\ call.late.timers = 0

\* C31: for the notes of one chord whose detections fall into one beat group,
\* the drawNote calls (positionInMeasure and newBar of each note) and the
\* resulting currentMeasureTatumIndex are the same whether each note's deferred
\* drawing call runs before the next note arrives or all notes and detections
\* arrive before the first deferred call runs.
C31_ChordScheduleIndependent ==
    ChordDrawn =>
        /\ Drawn(call.each.out) = Drawn(call.late.out)
        /\ call.each.currentMeasureTatumIndex = call.late.currentMeasureTatumIndex

(***************************************************************************)
(* C32: pending notes are drawn                                            *)
(***************************************************************************)
\* the step that takes the oldest callback off the queue: of the steps of
\* NextSession only TimerFires is one
TimerRuns ==
    /\ call.fn = "setTimeout"
    /\ Len(call.timers) > 0
    /\ call' = [call EXCEPT !.timers = Tail(@)]

\* the event loop runs every callback queued by setTimeout
SpecSessionFair == SpecSession /\ WF_call(TimerRuns)

\* a drawing call is queued, a beat group exists and window.drawNote is installed
DrawingDue ==
    /\ call.fn = "setTimeout"
    /\ Len(call.timers) > 0
    /\ Len(beatGroups) > 0
    /\ drawNoteSet

\* C32: no note stays pending forever: once a beat has been added and its
\* deferred drawBuffedNotes call is due with window.drawNote installed, every
\* pending note is eventually drawn and pendingNotes is empty after that call,
\* unless a reset comes in between.
C32_PendingEventuallyDrawn ==
    \A a \in 1..MaxNoteOns :
        (DrawingDue /\ a \in Arrivals(pendingNotes))
            ~> \/ a \in Arrivals(emitted) /\ pendingNotes = <<>>
               \/ call.sinceReset = 0

\* C32 witness: a drawing call queued by a later note-on drew a note that had
\* arrived without a beat, together with the note that brought the beat
C32_Witness ==
    /\ call.fn = "setTimeout"
    /\ lastFlush.ran
    /\ lastFlush.pendingBefore >= 2
    /\ Len(emitted) >= 2
    /\ pendingNotes = <<>>
    /\ call.sinceReset > 0

(***************************************************************************)
(* C33: positions inside a measure                                         *)
(***************************************************************************)
\* notes added between two resets in SpecOrdered
MaxOrderedNotes == 3

RECURSIVE LatestTime(_, _)
\* the latest timestamp among the first k of a sequence of notes or detections
LatestTime(events, k) ==
    IF k = 0 THEN 0 ELSE Max(events[k].timestamp, LatestTime(events, k - 1))

\* the latest timestamp handed to addNote or addBeat since the last reset
Clock ==
    Max(LatestTime(emitted \o pendingNotes, Len(emitted) + Len(pendingNotes)),
        IF Len(beatGroups) = 0 THEN 0
        ELSE LatestTime(beatGroups[Len(beatGroups)], Len(beatGroups[Len(beatGroups)])))

\* the operations of Next with notes and beats arriving in timestamp order
NextOrdered ==
    \/ \E t \in Times :
          /\ hist.added < MaxOrderedNotes
          /\ t >= Clock
          /\ AddNote(NextNote[1], NextNote[2], t)
    \/ \E t \in Times, d \in BOOLEAN :
          /\ Detections(beatGroups, Len(beatGroups)) < MaxBeats
          /\ t >= Clock
          /\ AddBeat(t, d)
    \/ DrawBuffedNotes
    \/ ResetScorify
    \/ \E t \in TatumInputs : UpdateTatum(t)
    \/ InstallDrawNote

SpecOrdered == Init /\ [][NextOrdered]_vars

\* the addNote timestamps since the last reset never decreased
SortedNotes ==
    LET notes == emitted \o pendingNotes
    IN  \A i, j \in 1..Len(notes) :
            notes[i].arrival < notes[j].arrival => notes[i].timestamp <= notes[j].timestamp

\* C33: when notes and beats arrive with timestamps that never decrease, the
\* positionInMeasure values of the notes drawn between two bar starts never
\* decrease in drawing order: a note drawn without a new bar is not placed
\* before the note drawn just before it.
C33_PositionsNeverDecrease ==
    (SortedNotes /\ hist.sortedBeats) =>
        \A i \in 2..Len(emitted) :
            ~emitted[i].newBar =>
                emitted[i].positionInMeasure >= emitted[i - 1].positionInMeasure

\* C33 witness: three notes were drawn in timestamp order, the second and the
\* third without a new bar and by different drawing calls, the third further
\* into the measure than the second
C33_Witness ==
    /\ SortedNotes
    /\ hist.sortedBeats
    /\ Len(emitted) = 3
    /\ lastFlush.from = 2
    /\ ~emitted[2].newBar
    /\ ~emitted[3].newBar
    /\ emitted[2].positionInMeasure > 0
    /\ emitted[3].positionInMeasure > emitted[2].positionInMeasure

(***************************************************************************)
(* C34: smoothedInterval stays above the floor                             *)
(***************************************************************************)
\* getCurrentBpm()
getCurrentBpm(smoothed) == RDiv(RInt(60000), smoothed)

\* C34: smoothedInterval is always strictly greater than ON_BEAT_TOLERANCE_MS
\* (50 ms), so the tatum size smoothedInterval / defaultTatum is strictly
\* positive for defaultTatum >= 1 and getCurrentBpm() is a positive number; one
\* drawBuffedNotes call leaves smoothedInterval between 0.7 and 1.15 times its
\* previous value.
C34_SmoothedAboveFloor ==
    /\ RGt(smoothedInterval, RInt(ON_BEAT_TOLERANCE_MS))
    /\ defaultTatum >= 1 =>
          RGt(RDiv(smoothedInterval, RInt(defaultTatum)), RInt(0))
    /\ RGt(getCurrentBpm(smoothedInterval), RInt(0))
    /\ lastFlush.ran =>
          /\ ~RLt(RMul(smoothedInterval, RInt(10)),
                  RMul(lastFlush.smoothedBefore, RInt(7)))
          /\ ~RGt(RMul(smoothedInterval, RInt(100)),
                  RMul(lastFlush.smoothedBefore, RInt(115)))

\* C34 witness: a call folded in an interval shorter than the smoothed interval
\* and the smoothed interval shrank
C34_Witness ==
    /\ lastFlush.ran
    /\ lastFlush.lastBefore # NULL
    /\ RLt(LastObserved, lastFlush.smoothedBefore)
    /\ RLt(smoothedInterval, lastFlush.smoothedBefore)

(***************************************************************************)
(* C35: what resetScorify and updateTatum leave alone                      *)
(***************************************************************************)
\* C35: resetScorify() leaves defaultTatum as it was, and updateTatum(tatum)
\* changes nothing but defaultTatum: pendingNotes, beatGroups,
\* smoothedInterval, lastBeatTimestamp and currentMeasureTatumIndex (and
\* isFirstBeat) keep their values, so does every step that changes defaultTatum.
C35_TatumFrame ==
    [][/\ RunResetScorify => defaultTatum' = defaultTatum
       /\ \A t \in TatumInputs :
             UpdateTatum(t) =>
                 UNCHANGED <<pendingNotes, beatGroups, smoothedInterval,
                             lastBeatTimestamp, currentMeasureTatumIndex,
                             isFirstBeat>>
       /\ defaultTatum' # defaultTatum =>
             UNCHANGED <<pendingNotes, beatGroups, smoothedInterval,
                         lastBeatTimestamp, currentMeasureTatumIndex,
                         isFirstBeat>>]_vars

\* C35 witness: defaultTatum was changed by updateTatum and resetScorify ran
\* after a drawing call; the tatum is still the changed one, a note is pending,
\* a beat is held and the measure index is the one the drawing call left
C35_Witness ==
    /\ defaultTatum # InitialTatum
    /\ hist.fresh
    /\ currentMeasureTatumIndex > 0
    /\ Len(pendingNotes) > 0
    /\ Len(beatGroups) > 0

(***************************************************************************)
(* C36: the measure index of the layout (drawNote of the App component)    *)
(***************************************************************************)
\* minBeatLevel of the component (its initial state); 16 / minBeatLevel and
\* minBeatLevel / noteType are whole numbers for it
MinBeatLevel == 16
BASE_UNIT == 15
\* window.innerWidth, in pixels
InnerWidth == 1000
\* the note type drawBuffedNotes hands to drawNote
DefaultNoteType == 8

calculatePositionSpacing(minBeat) == (16 \div minBeat) * BASE_UNIT

\* layoutStateRef at mount and after handleClear
NewLayout ==
    [currentMeasureIndex |-> 0,
     measureStartAbsoluteX |-> InnerWidth \div 2,
     absoluteHeadX |-> InnerWidth \div 2,
     currentMeasureNotes |-> <<>>]

\* drawNote that commits the new measure after the note is recorded
drawNote_BarAfterNote(s, newBar, positionInMeasure, noteType) ==
    LET positionSpacing == calculatePositionSpacing(MinBeatLevel)
        layout == s.layout
        held == layout.currentMeasureNotes
        lastPosition == CHOOSE m \in {held[i].position : i \in 1..Len(held)} :
                            \A i \in 1..Len(held) : held[i].position <= m
        positionDurations == {MinBeatLevel \div held[i].duration :
                                 i \in {j \in 1..Len(held) : held[j].position = lastPosition}}
        maxDuration == CHOOSE m \in positionDurations : \A d \in positionDurations : d <= m
        barlineRelativePos == IF Len(held) > 0 THEN lastPosition + Max(maxDuration, 1) ELSE 0
        absoluteBarlineX == layout.measureStartAbsoluteX
                            + barlineRelativePos * positionSpacing + 40
        committed == IF newBar
                     THEN [layout EXCEPT !.currentMeasureIndex = @ + 1,
                                         !.measureStartAbsoluteX = absoluteBarlineX + 30,
                                         !.currentMeasureNotes = <<>>]
                     ELSE layout
        absoluteX == committed.measureStartAbsoluteX + positionInMeasure * positionSpacing
    IN  [layout |-> [committed EXCEPT
                       !.currentMeasureNotes =
                           Append(@, [position |-> positionInMeasure, duration |-> noteType]),
                       !.absoluteHeadX = Max(@, absoluteX)],
         notes |-> Append(s.notes,
                          [newBar |-> newBar, positionInMeasure |-> positionInMeasure,
                           absoluteX |-> absoluteX,
                           measureIndex |-> layout.currentMeasureIndex,
                           barlineX |-> IF newBar THEN absoluteBarlineX ELSE -1])]

\* drawNote(midiPitch, staff, newBar, positionInMeasure, noteType): the layout
\* state and the notes on the score after the call; barlineX -1 is undefined
drawNote(s, newBar, positionInMeasure, noteType) ==
    LET positionSpacing == calculatePositionSpacing(MinBeatLevel)
        layout == s.layout
        held == layout.currentMeasureNotes
        lastPosition == CHOOSE m \in {held[i].position : i \in 1..Len(held)} :
                            \A i \in 1..Len(held) : held[i].position <= m
        positionDurations == {MinBeatLevel \div held[i].duration :
                                 i \in {j \in 1..Len(held) : held[j].position = lastPosition}}
        maxDuration == CHOOSE m \in positionDurations : \A d \in positionDurations : d <= m
        barlineRelativePos == IF Len(held) > 0 THEN lastPosition + Max(maxDuration, 1) ELSE 0
        absoluteBarlineX == layout.measureStartAbsoluteX
                            + barlineRelativePos * positionSpacing + 40
        committed == IF newBar
                     THEN [layout EXCEPT !.currentMeasureIndex = @ + 1,
                                         !.measureStartAbsoluteX = absoluteBarlineX + 30,
                                         !.currentMeasureNotes = <<>>]
                     ELSE layout
        absoluteX == committed.measureStartAbsoluteX + positionInMeasure * positionSpacing
    IN  [layout |-> [committed EXCEPT
                       !.currentMeasureNotes =
                           Append(@, [position |-> positionInMeasure, duration |-> noteType]),
                       !.absoluteHeadX = Max(@, absoluteX)],
         notes |-> Append(s.notes,
                          [newBar |-> newBar, positionInMeasure |-> positionInMeasure,
                           absoluteX |-> absoluteX,
                           measureIndex |-> committed.currentMeasureIndex,
                           barlineX |-> IF newBar THEN absoluteBarlineX ELSE -1])]

RECURSIVE drawNotes(_, _, _)
\* the window.drawNote calls of one drawBuffedNotes call, for the first k of
\* the notes it drew
drawNotes(s, out, k) ==
    IF k = 0 THEN s
    ELSE CHOOSE x \in {drawNote(p, out[k].newBar, out[k].positionInMeasure,
                                DefaultNoteType) : p \in {drawNotes(s, out, k - 1)}} : TRUE

InitLayout ==
    /\ InitEngine
    /\ call = [fn |-> "drawNote", layout |-> NewLayout, notes |-> <<>>]

\* drawBuffedNotes() with window.drawNote bound to the component's drawNote
DrawOnScore ==
    /\ call.fn = "drawNote"
    /\ RunDrawBuffedNotes
    /\ \E x \in {drawNotes([layout |-> call.layout, notes |-> call.notes],
                           SubSeq(emitted', Len(emitted) + 1, Len(emitted')),
                           Len(emitted') - Len(emitted))} :
          call' = [call EXCEPT !.layout = x.layout, !.notes = x.notes]

\* handleClear: setNotes([]), resetScorify(), layoutStateRef back to its start
ClearScore ==
    /\ call.fn = "drawNote"
    /\ RunResetScorify
    /\ call' = [call EXCEPT !.layout = NewLayout, !.notes = <<>>]

NextLayout ==
    \/ \E t \in Times :
          /\ hist.added < MaxOrderedNotes
          /\ t >= Clock
          /\ AddNote(NextNote[1], NextNote[2], t)
    \/ \E t \in Times, d \in BOOLEAN :
          /\ Detections(beatGroups, Len(beatGroups)) < MaxBeats
          /\ t >= Clock
          /\ AddBeat(t, d)
    \/ DrawOnScore
    \/ ClearScore
    \/ InstallDrawNote

SpecLayout == InitLayout /\ [][NextLayout]_vars

\* C36: between two clears the measure index of the notes on the score never
\* decreases in drawing order: a note drawn with newBar = true has the index of
\* the note before it plus one (the first note: the index after the clear, 0,
\* plus one), every other note has the index of the note before it, and the
\* layout holds the index of the last note.
C36_MeasureIndexFollowsBars ==
    call.fn = "drawNote" =>
        /\ \A i \in 1..Len(call.notes) :
              call.notes[i].measureIndex =
                  (IF i = 1 THEN 0 ELSE call.notes[i - 1].measureIndex)
                  + (IF call.notes[i].newBar THEN 1 ELSE 0)
        /\ call.layout.currentMeasureIndex =
              (IF Len(call.notes) = 0 THEN 0
               ELSE call.notes[Len(call.notes)].measureIndex)
        /\ Len(call.notes) = Len(emitted)
        /\ \A i \in 1..Len(call.notes) : call.notes[i].newBar = emitted[i].newBar

\* C36 witness: the third note on the score starts the second bar after a note
\* that started none
C36_Witness ==
    /\ call.fn = "drawNote"
    /\ Len(call.notes) = 3
    /\ call.notes[1].newBar
    /\ ~call.notes[2].newBar
    /\ call.notes[3].newBar
    /\ call.notes[2].measureIndex = 1
    /\ call.notes[3].measureIndex = 2

(***************************************************************************)
(* C37: classification is monotone in the pitch                            *)
(***************************************************************************)
\* the MIDI note numbers
MidiPitches == 0..127

\* C37: in every state of a HandSeparator, whenever classify would return
\* "bass" for a whole-number pitch p it would return "bass" for p - 1 as well,
\* hence for every lower pitch: one threshold splits the two staves.
C37_MonotoneInPitch ==
    call.fn = "HandSeparator" =>
        \A p \in MidiPitches \ {0} :
            classify(call.one, p).staff = "bass"
                => classify(call.one, p - 1).staff = "bass"

\* C37 witness: after classify calls have moved the centroids the threshold lies
\* inside the hard bounds, away from the initial one between 60 and 61
C37_Witness ==
    /\ Classified
    /\ call.one.leftCentroid # RInt(48)
    /\ call.one.rightCentroid # RInt(72)
    /\ \E p \in (HARD_TREBLE_FLOOR + 1)..(HARD_BASS_CEILING - 1) :
          /\ p # 60
          /\ classify(call.one, p).staff = "bass"
          /\ classify(call.one, p + 1).staff = "treble"

(***************************************************************************)
(* C38: the two repulsion branches of classify                             *)
(***************************************************************************)
\* the centroid the latest classify call moved, as the moving average alone
\* leaves it: 0.9 * centroid + 0.1 * pitch
LastMoved ==
    LET centroid == IF call.staff = "bass" THEN call.before.leftCentroid
                    ELSE call.before.rightCentroid
    IN  RAdd(RMul(centroid, RSub(RInt(1), alpha)), RMul(RInt(call.pitch), alpha))

====
